---- MODULE Spec2Model ----
(***************************************************************************)
(* Model of src/query.rs of the quandl client: the seven query types,      *)
(* their fmt_prefix / fmt_arguments implementations of ApiCall, the JSON   *)
(* unwrapping of send_and_unwrap_json and the zip+CSV decoding of          *)
(* CodeListQuery::send.                                                    *)
(*                                                                         *)
(* Strings are sequences of one-character strings, so that format!, split  *)
(* and the CSV reader are computed on characters.                          *)
(***************************************************************************)
EXTENDS Integers, Sequences, FiniteSets, TLC

VARIABLES query, call, response, trace, result

vars == <<query, call, response, trace, result>>

(***************************************************************************)
(* Bounds of the model.                                                    *)
(***************************************************************************)
\* options an argument group may hold
NumOptions == 2
\* members of a JSON object in a response
MaxMembers == 2
\* entries of a zip archive in a response
MaxEntries == 2
\* CSV rows in the whole archive
MaxRows == 3

(***************************************************************************)
(* Option<String> and Result<T>.                                           *)
(***************************************************************************)
None == [some |-> FALSE, val |-> <<>>]

Some(s) == [some |-> TRUE, val |-> s]

Ok(v) == [tag |-> "Ok", kind |-> "Ok", value |-> v]

ParsingFailed(m) == [tag |-> "Err", kind |-> "ParsingFailed", value |-> m]

\* an Err the transport returned, carried as it is
TransportErr(e) == [tag |-> "Err", kind |-> "Transport", value |-> e]

\* the thread unwinds: no value is returned
Panic(m) == [tag |-> "Panic", kind |-> "Panic", value |-> m]

(***************************************************************************)
(* The query types (the seven structs) and their constructors.             *)
(***************************************************************************)
Kinds ==
    {"DatabaseMetadataQuery", "DatasetMetadataQuery", "DatabaseSearch",
     "DatasetSearch", "CodeListQuery", "DataQuery", "DataAndMetadataQuery"}

\* the kinds that hold a database_code
HasDatabaseCode ==
    Kinds \ {"DatabaseSearch"}

\* the kinds that hold a dataset_code
HasDatasetCode ==
    {"DatasetMetadataQuery", "DataQuery", "DataAndMetadataQuery"}

\* the kinds with impl_has!(_, SearchArguments, search_arguments)
HasSearchArguments ==
    {"DatabaseSearch", "DatasetSearch"}

\* the kinds with impl_has!(_, DataArguments, data_arguments)
HasDataArguments ==
    {"DataQuery", "DataAndMetadataQuery"}

\* the kinds whose send is send_and_unwrap_json
JsonKinds ==
    Kinds \ {"CodeListQuery"}

DatabaseCodes == {<<"W">>, <<"Q", "D">>}

DatasetCodes == {<<"A">>, <<"G", "E">>}

\* Xxx::new(database_code, dataset_code): every argument group is default()
NewQuery(kind, database_code, dataset_code) ==
    [kind |-> kind,
     database_code |-> IF kind \in HasDatabaseCode THEN database_code ELSE <<>>,
     dataset_code |-> IF kind \in HasDatasetCode THEN dataset_code ELSE <<>>,
     request_arguments |-> {},
     search_arguments |-> {},
     data_arguments |-> {}]

NewQueries ==
    {NewQuery(k, d, s) : k \in Kinds, d \in DatabaseCodes, s \in DatasetCodes}

(***************************************************************************)
(* The parameter traits: an argument group is the set of its options that  *)
(* are set; fmt writes the set ones in declared order, joined by "&".      *)
(***************************************************************************)
Digit(i) == <<"1", "2", "3", "4", "5", "6", "7", "8", "9">>[i]

\* option i of group g, as "gi=v"
OptionEntry(g, i) == <<g, Digit(i), "=", "v">>

RECURSIVE JoinOptions(_, _, _)
JoinOptions(g, group, i) ==
    IF i > NumOptions THEN <<>>
    ELSE LET rest == JoinOptions(g, group, i + 1)
         IN  IF i \notin group THEN rest
             ELSE IF rest = <<>> THEN OptionEntry(g, i)
             ELSE OptionEntry(g, i) \o <<"&">> \o rest

FmtGroup(g, group) ==
    IF group = {} THEN None ELSE Some(JoinOptions(g, group, 1))

ApiParameters_fmt(q) == FmtGroup("r", q.request_arguments)

SearchParameters_fmt(q) == FmtGroup("s", q.search_arguments)

DataParameters_fmt(q) == FmtGroup("d", q.data_arguments)

(***************************************************************************)
(* fmt_prefix of each impl of ApiCall.                                     *)
(***************************************************************************)
L_databases == <<"/", "d", "a", "t", "a", "b", "a", "s", "e", "s">>

L_datasets == <<"/", "d", "a", "t", "a", "s", "e", "t", "s">>

L_json == <<".", "j", "s", "o", "n">>

L_metadata == <<"/", "m", "e", "t", "a", "d", "a", "t", "a">>

L_data == <<"/", "d", "a", "t", "a">>

L_codes == <<"/", "c", "o", "d", "e", "s">>

DatabaseMetadataQuery_fmt_prefix(q) ==
    Some(L_databases \o <<"/">> \o q.database_code \o L_json)

DatasetMetadataQuery_fmt_prefix(q) ==
    Some(L_datasets \o <<"/">> \o q.database_code \o <<"/">> \o q.dataset_code
         \o L_metadata \o L_json)

DatabaseSearch_fmt_prefix(q) ==
    Some(L_databases \o L_json)

DatasetSearch_fmt_prefix(q) ==
    Some(L_datasets \o L_json)

CodeListQuery_fmt_prefix(q) ==
    Some(L_databases \o <<"/">> \o q.database_code \o L_codes)

DataQuery_fmt_prefix_swapped(q) ==
    Some(L_datasets \o <<"/">> \o q.dataset_code \o <<"/">> \o q.database_code
         \o L_data \o L_json)

DataQuery_fmt_prefix(q) ==
    Some(L_datasets \o <<"/">> \o q.database_code \o <<"/">> \o q.dataset_code
         \o L_data \o L_json)

DataAndMetadataQuery_fmt_prefix(q) ==
    Some(L_datasets \o <<"/">> \o q.database_code \o <<"/">> \o q.dataset_code
         \o L_json)

fmt_prefix(q) ==
    CASE q.kind = "DatabaseMetadataQuery" -> DatabaseMetadataQuery_fmt_prefix(q)
      [] q.kind = "DatasetMetadataQuery" -> DatasetMetadataQuery_fmt_prefix(q)
      [] q.kind = "DatabaseSearch" -> DatabaseSearch_fmt_prefix(q)
      [] q.kind = "DatasetSearch" -> DatasetSearch_fmt_prefix(q)
      [] q.kind = "CodeListQuery" -> CodeListQuery_fmt_prefix(q)
      [] q.kind = "DataQuery" -> DataQuery_fmt_prefix(q)
      [] q.kind = "DataAndMetadataQuery" -> DataAndMetadataQuery_fmt_prefix(q)

(***************************************************************************)
(* fmt_arguments of each impl of ApiCall.                                  *)
(***************************************************************************)
L_database_code == <<"d", "a", "t", "a", "b", "a", "s", "e", "_", "c", "o", "d", "e", "=">>

DatabaseMetadataQuery_fmt_arguments(q) == ApiParameters_fmt(q)

DatasetMetadataQuery_fmt_arguments(q) == ApiParameters_fmt(q)

CodeListQuery_fmt_arguments(q) == ApiParameters_fmt(q)

DatabaseSearch_fmt_arguments(q) ==
    LET arg_1 == ApiParameters_fmt(q)
        arg_2 == SearchParameters_fmt(q)
    IN  IF arg_1.some /\ arg_2.some THEN Some(arg_1.val \o <<"&">> \o arg_2.val)
        ELSE IF arg_1.some THEN arg_1
        ELSE IF arg_2.some THEN arg_2
        ELSE None

DatasetSearch_fmt_arguments(q) ==
    LET arg_1 == ApiParameters_fmt(q)
        arg_2 == SearchParameters_fmt(q)
    IN  IF arg_1.some /\ arg_2.some
        THEN Some(arg_1.val \o <<"&">> \o arg_2.val \o <<"&">>
                  \o L_database_code \o q.database_code)
        ELSE IF arg_1.some
        THEN Some(arg_1.val \o <<"&">> \o L_database_code \o q.database_code)
        ELSE IF arg_2.some
        THEN Some(arg_2.val \o <<"&">> \o L_database_code \o q.database_code)
        ELSE None

DataQuery_fmt_arguments_swapped(q) ==
    LET arg_1 == ApiParameters_fmt(q)
        arg_2 == DataParameters_fmt(q)
    IN  IF arg_1.some /\ arg_2.some THEN Some(arg_2.val \o <<"&">> \o arg_1.val)
        ELSE IF arg_1.some THEN arg_1
        ELSE IF arg_2.some THEN arg_2
        ELSE None

DataQuery_fmt_arguments(q) ==
    LET arg_1 == ApiParameters_fmt(q)
        arg_2 == DataParameters_fmt(q)
    IN  IF arg_1.some /\ arg_2.some THEN Some(arg_1.val \o <<"&">> \o arg_2.val)
        ELSE IF arg_1.some THEN arg_1
        ELSE IF arg_2.some THEN arg_2
        ELSE None

DataAndMetadataQuery_fmt_arguments(q) ==
    LET arg_1 == ApiParameters_fmt(q)
        arg_2 == DataParameters_fmt(q)
    IN  IF arg_1.some /\ arg_2.some THEN Some(arg_1.val \o <<"&">> \o arg_2.val)
        ELSE IF arg_1.some THEN arg_1
        ELSE IF arg_2.some THEN arg_2
        ELSE None

fmt_arguments(q) ==
    CASE q.kind = "DatabaseMetadataQuery" -> DatabaseMetadataQuery_fmt_arguments(q)
      [] q.kind = "DatasetMetadataQuery" -> DatasetMetadataQuery_fmt_arguments(q)
      [] q.kind = "DatabaseSearch" -> DatabaseSearch_fmt_arguments(q)
      [] q.kind = "DatasetSearch" -> DatasetSearch_fmt_arguments(q)
      [] q.kind = "CodeListQuery" -> CodeListQuery_fmt_arguments(q)
      [] q.kind = "DataQuery" -> DataQuery_fmt_arguments(q)
      [] q.kind = "DataAndMetadataQuery" -> DataAndMetadataQuery_fmt_arguments(q)

(***************************************************************************)
(* The formatting specification: a query is constructed, its argument      *)
(* groups are configured, and fmt_prefix / fmt_arguments are called on it. *)
(***************************************************************************)
NoResponse == [ok |-> FALSE, error |-> "none"]

Init ==
    /\ query \in NewQueries
    /\ call = "none"
    /\ response = NoResponse
    /\ trace = <<>>
    /\ result = None

\* Has<ApiArguments>: option i of the request arguments is set
SetRequestArgument(i) ==
    /\ i \notin query.request_arguments
    /\ query' = [query EXCEPT !.request_arguments = @ \cup {i}]
    /\ call' = "none"
    /\ result' = None
    /\ UNCHANGED <<response, trace>>

\* Has<SearchArguments>: option i of the search arguments is set
SetSearchArgument(i) ==
    /\ query.kind \in HasSearchArguments
    /\ i \notin query.search_arguments
    /\ query' = [query EXCEPT !.search_arguments = @ \cup {i}]
    /\ call' = "none"
    /\ result' = None
    /\ UNCHANGED <<response, trace>>

\* Has<DataArguments>: option i of the data arguments is set
SetDataArgument(i) ==
    /\ query.kind \in HasDataArguments
    /\ i \notin query.data_arguments
    /\ query' = [query EXCEPT !.data_arguments = @ \cup {i}]
    /\ call' = "none"
    /\ result' = None
    /\ UNCHANGED <<response, trace>>

FmtPrefix ==
    /\ call' = "fmt_prefix"
    /\ result' = fmt_prefix(query)
    /\ UNCHANGED <<query, response, trace>>

FmtArguments ==
    /\ call' = "fmt_arguments"
    /\ result' = fmt_arguments(query)
    /\ UNCHANGED <<query, response, trace>>

Next ==
    \/ \E i \in 1..NumOptions : SetRequestArgument(i)
    \/ \E i \in 1..NumOptions : SetSearchArgument(i)
    \/ \E i \in 1..NumOptions : SetDataArgument(i)
    \/ FmtPrefix
    \/ FmtArguments

Spec == Init /\ [][Next]_vars

(***************************************************************************)
(* Responses of the transport call encoded_data.  A response is an Err of  *)
(* the transport, or Ok(bytes); the bytes are described by what the        *)
(* decoders find in them.                                                  *)
(***************************************************************************)
TransportErrors ==
    {TransportErr(<<"DownloadFailed">>), TransportErr(<<"ApiCallFailed">>)}

\* the keys of a JSON object, in the order of String's Ord (BTreeMap's order)
KeyOrder == <<"data", "dataset">>

Keys == {KeyOrder[i] : i \in 1..Len(KeyOrder)}

\* JSON values that decode as the expected type T
Values == {"v1", "v2"}

\* a JSON value that does not decode as T
Mistyped == "mistyped"

Members == [key : Keys, value : Values \cup {Mistyped}]

SeqsUpTo(S, n) == UNION {[1..m -> S] : m \in 0..n}

\* bytes as send_and_unwrap_json sees them: valid UTF-8 or not, JSON text or
\* not, and the members of the JSON object as written, duplicates included
JsonBodies ==
    {[utf8 |-> FALSE, syntax |-> FALSE, members |-> <<>>],
     [utf8 |-> TRUE, syntax |-> FALSE, members |-> <<>>]}
    \cup {[utf8 |-> TRUE, syntax |-> TRUE, members |-> m] :
            m \in SeqsUpTo(Members, MaxMembers)}

\* the code-list rows a server may write: a row is its columns
GoodCodes ==
    {[database_code |-> <<"W">>, dataset_code |-> <<"A">>, name |-> <<"x">>],
     [database_code |-> <<"W">>, dataset_code |-> <<"B">>, name |-> <<"y">>]}

RowOfCode(c) == <<c.database_code \o <<"/">> \o c.dataset_code, c.name>>

BadRows ==
    {<<<<"W", "A">>, <<"x">>>>,
     <<<<"A", "/", "B", "/", "C">>, <<"x">>>>,
     <<<<"/", "A">>, <<"x">>>>,
     <<<<"W", "/">>, <<"y">>>>,
     <<<<"z">>>>}

RowPool == {RowOfCode(c) : c \in GoodCodes} \cup BadRows

\* an archive entry: one that by_index cannot open, one whose bytes
\* read_to_string cannot read as text, or one holding rows, its last row
\* ended by a line break or not
EntryStates == {"ok", "unopenable", "unreadable"}

RECURSIVE SumTo(_, _)
SumTo(sizes, i) == IF i = 0 THEN 0 ELSE sizes[i] + SumTo(sizes, i - 1)

\* the archive whose entry i is in state states[i] and holds the next sizes[i]
\* of the rows
ArchiveOf(rows, sizes, states, newlines) ==
    [i \in 1..Len(sizes) |->
        [state |-> states[i],
         rows |-> SubSeq(rows, SumTo(sizes, i - 1) + 1, SumTo(sizes, i)),
         newline |-> newlines[i]]]

\* bytes as ZipArchive::new sees them: an archive or not, and its entries
NotAZip == [zip |-> FALSE, entries |-> <<>>]

ZipBody(entries) == [zip |-> TRUE, entries |-> entries]

Responses(bodies) ==
    {[ok |-> FALSE, error |-> e, body |-> <<>>] : e \in TransportErrors}
    \cup {[ok |-> TRUE, error |-> None, body |-> b] : b \in bodies}

(***************************************************************************)
(* send_and_unwrap_json.                                                   *)
(***************************************************************************)
KeyRank(k) == CHOOSE i \in 1..Len(KeyOrder) : KeyOrder[i] = k

\* json::decode::<BTreeMap<String, T>>: the object's members are inserted in
\* the order written, a later member replacing an earlier one of the same key
TreeOf(members) ==
    LET ks == {members[i].key : i \in 1..Len(members)}
        last(k) == CHOOSE i \in 1..Len(members) :
                      /\ members[i].key = k
                      /\ \A j \in 1..Len(members) : members[j].key = k => j <= i
    IN  [k \in ks |-> members[last(k)].value]

\* tree.iter().next().unwrap().1: the value of the least key
FirstValue(tree) ==
    LET k == CHOOSE a \in DOMAIN tree : \A b \in DOMAIN tree : KeyRank(a) <= KeyRank(b)
    IN  tree[k]

\* {} of format! for a usize: its decimal digits
RECURSIVE Decimal(_)
Decimal(n) ==
    LET d == <<"0", "1", "2", "3", "4", "5", "6", "7", "8", "9">>[(n % 10) + 1]
    IN  IF n < 10 THEN d ELSE Decimal(n \div 10) \o d

unwrap_first(tree) ==
    IF Cardinality(DOMAIN tree) >= 1
    THEN Ok(FirstValue(tree))
    ELSE ParsingFailed(<<"Expected a single element, got " \o Decimal(Cardinality(DOMAIN tree)) \o ".">>)

unwrap_single(tree) ==
    IF Cardinality(DOMAIN tree) = 1
    THEN Ok(FirstValue(tree))
    ELSE ParsingFailed(<<"Expected a single element, got " \o Decimal(Cardinality(DOMAIN tree)) \o ".">>)

json_decode(body) ==
    IF ~body.syntax THEN ParsingFailed(<<"json: syntax error">>)
    ELSE LET tree == TreeOf(body.members)
         IN  IF \E k \in DOMAIN tree : tree[k] = Mistyped
             THEN ParsingFailed(<<"json: decoder error">>)
             ELSE unwrap_single(tree)

send_and_unwrap_json_retry(resp) ==
    IF ~resp.ok
    THEN [trace |-> <<"encoded_data", "encoded_data">>, result |-> resp.error]
    ELSE IF ~resp.body.utf8
    THEN [trace |-> <<"encoded_data", "from_utf8">>,
          result |-> ParsingFailed(<<"invalid utf-8 sequence">>)]
    ELSE [trace |-> <<"encoded_data", "from_utf8", "json_decode">>,
          result |-> json_decode(resp.body)]

send_and_unwrap_json(resp) ==
    IF ~resp.ok
    THEN [trace |-> <<"encoded_data">>, result |-> resp.error]
    ELSE IF ~resp.body.utf8
    THEN [trace |-> <<"encoded_data", "from_utf8">>,
          result |-> ParsingFailed(<<"invalid utf-8 sequence">>)]
    ELSE [trace |-> <<"encoded_data", "from_utf8", "json_decode">>,
          result |-> json_decode(resp.body)]

(***************************************************************************)
(* CodeListQuery::send.                                                    *)
(***************************************************************************)
RECURSIVE JoinWith(_, _)
JoinWith(parts, sep) ==
    IF parts = <<>> THEN <<>>
    ELSE IF Len(parts) = 1 THEN parts[1]
    ELSE parts[1] \o <<sep>> \o JoinWith(Tail(parts), sep)

\* the decompressed text of an entry
EntryText(e) ==
    JoinWith([i \in 1..Len(e.rows) |-> JoinWith(e.rows[i], ",")], "\n")
    \o (IF e.newline THEN <<"\n">> ELSE <<>>)

\* str::split(c): the segments between the occurrences of c, empty ones kept
RECURSIVE SplitFrom(_, _, _, _)
SplitFrom(s, c, i, cur) ==
    IF i > Len(s) THEN <<cur>>
    ELSE IF s[i] = c THEN <<cur>> \o SplitFrom(s, c, i + 1, <<>>)
    ELSE SplitFrom(s, c, i + 1, Append(cur, s[i]))

Split(s, c) == SplitFrom(s, c, 1, <<>>)

\* the loop over files.by_index(index).unwrap().read_to_string(&mut csv)
RECURSIVE ReadEntries(_, _, _)
ReadEntries(entries, index, csv) ==
    IF index > Len(entries) THEN [failed |-> FALSE, csv |-> csv]
    ELSE IF entries[index].state = "unopenable"
    THEN [failed |-> TRUE, result |-> Panic(<<"called Result::unwrap() on an Err value">>)]
    ELSE IF entries[index].state = "unreadable"
    THEN [failed |-> TRUE, result |-> ParsingFailed(<<"stream did not contain valid UTF-8">>)]
    ELSE ReadEntries(entries, index + 1, csv \o EntryText(entries[index]))

\* csv::Reader::from_string(csv): the records of the text, a record per
\* non-empty line, a field per comma-separated segment
CsvRecords(csv) ==
    LET lines == SelectSeq(Split(csv, "\n"), LAMBDA l : l # <<>>)
    IN  [i \in 1..Len(lines) |-> Split(lines[i], ",")]

\* Reader's default: the first record is the header row, which decode() skips
has_headers == TRUE

\* the body of the loop over reader.decode(), from record i on
RECURSIVE DecodeRows(_, _, _)
DecodeRows(records, i, codes) ==
    IF i > Len(records) THEN Ok(codes)
    ELSE IF Len(records[i]) # Len(records[1])
    THEN ParsingFailed(<<"csv: unequal record lengths">>)
    ELSE IF Len(records[i]) # 2
    THEN ParsingFailed(<<"csv: decode error">>)
    ELSE LET pair == Split(records[i][1], "/")
         IN  IF Len(pair) # 2
             THEN ParsingFailed(<<"Invalid format for dataset codes in unzipped code list.">>)
             ELSE DecodeRows(records, i + 1,
                             Append(codes, [database_code |-> pair[1],
                                            dataset_code |-> pair[2],
                                            name |-> records[i][2]]))

CodeListQuery_send(resp) ==
    IF ~resp.ok
    THEN [trace |-> <<"encoded_data">>, result |-> resp.error]
    ELSE IF ~resp.body.zip
    THEN [trace |-> <<"encoded_data", "ZipArchive_new">>,
          result |-> ParsingFailed(<<"invalid Zip archive">>)]
    ELSE LET read == ReadEntries(resp.body.entries, 1, <<>>)
         IN  IF read.failed
             THEN [trace |-> <<"encoded_data", "ZipArchive_new", "read_entries">>,
                   result |-> read.result]
             ELSE [trace |-> <<"encoded_data", "ZipArchive_new", "read_entries",
                               "csv_decode">>,
                   result |-> DecodeRows(CsvRecords(read.csv),
                                         IF has_headers THEN 2 ELSE 1, <<>>)]

(***************************************************************************)
(* The sending specification: a query is constructed and sent once; the    *)
(* caller takes the result and constructs the next query.                  *)
(***************************************************************************)
SendJson ==
    /\ call = "none"
    /\ query.kind \in JsonKinds
    /\ \E resp \in Responses(JsonBodies) :
         LET returned == send_and_unwrap_json(resp)
         IN  /\ response' = resp
             /\ trace' = returned.trace
             /\ result' = returned.result
    /\ call' = "send"
    /\ UNCHANGED query

CodeListReturns(resp) ==
    LET returned == CodeListQuery_send(resp)
    IN  /\ response' = resp
        /\ trace' = returned.trace
        /\ result' = returned.result

SendCodeList ==
    /\ call = "none"
    /\ query.kind = "CodeListQuery"
    /\ \/ \E resp \in Responses({NotAZip}) : CodeListReturns(resp)
       \/ \E n \in 0..MaxRows, k \in 0..MaxEntries :
            \E rows \in [1..n -> RowPool], sizes \in [1..k -> 0..n] :
              /\ SumTo(sizes, k) = n
              /\ \E states \in [1..k -> EntryStates] :
                   /\ \A i \in 1..k : states[i] # "ok" => sizes[i] = 0
                   /\ \E newlines \in [1..k -> BOOLEAN] :
                        /\ \A i \in 1..k : states[i] # "ok" => ~newlines[i]
                        /\ CodeListReturns(
                             [ok |-> TRUE, error |-> None,
                              body |-> ZipBody(ArchiveOf(rows, sizes, states, newlines))])
    /\ call' = "send"
    /\ UNCHANGED query

\* the queries that are sent: one of each type, freshly constructed
SentQueries ==
    {NewQuery(k, <<"W">>, <<"A">>) : k \in Kinds}

InitSend ==
    /\ query \in SentQueries
    /\ call = "none"
    /\ response = NoResponse
    /\ trace = <<>>
    /\ result = None

\* the call has returned; the query is dropped and another one constructed
NewCall ==
    /\ call = "send"
    /\ query' \in SentQueries
    /\ call' = "none"
    /\ response' = NoResponse
    /\ trace' = <<>>
    /\ result' = None

NextSend ==
    \/ SendJson
    \/ SendCodeList
    \/ NewCall

SpecSend == InitSend /\ [][NextSend]_vars

(***************************************************************************)
(* Properties of fmt_prefix and fmt_arguments, checked under Spec.         *)
(***************************************************************************)
EndsWith(s, t) ==
    /\ Len(s) >= Len(t)
    /\ SubSeq(s, Len(s) - Len(t) + 1, Len(s)) = t

RECURSIVE PathOf(_)
PathOf(segments) ==
    IF segments = <<>> THEN <<>>
    ELSE <<"/">> \o segments[1] \o PathOf(Tail(segments))

W_databases == <<"d", "a", "t", "a", "b", "a", "s", "e", "s">>

W_datasets == <<"d", "a", "t", "a", "s", "e", "t", "s">>

W_metadata == <<"m", "e", "t", "a", "d", "a", "t", "a">>

W_data == <<"d", "a", "t", "a">>

W_codes == <<"c", "o", "d", "e", "s">>

W_dot_json == <<".", "j", "s", "o", "n">>

\* the endpoint of a query type for database code D and dataset code S
EndpointPath(kind, D, S) ==
    CASE kind = "DatabaseMetadataQuery" -> PathOf(<<W_databases, D>>) \o W_dot_json
      [] kind = "DatasetMetadataQuery" -> PathOf(<<W_datasets, D, S, W_metadata>>) \o W_dot_json
      [] kind = "DatabaseSearch" -> PathOf(<<W_databases>>) \o W_dot_json
      [] kind = "DatasetSearch" -> PathOf(<<W_datasets>>) \o W_dot_json
      [] kind = "CodeListQuery" -> PathOf(<<W_databases, D, W_codes>>)
      [] kind = "DataQuery" -> PathOf(<<W_datasets, D, S, W_data>>) \o W_dot_json
      [] kind = "DataAndMetadataQuery" -> PathOf(<<W_datasets, D, S>>) \o W_dot_json

\* C9: fmt_prefix returns Some of the endpoint template of the query's type
\* with its codes interpolated, whatever argument groups are attached.
C9_PrefixIsEndpointTemplate ==
    call = "fmt_prefix" =>
        result = Some(EndpointPath(query.kind, query.database_code, query.dataset_code))

\* a DataQuery with both of its argument groups set, formatted as
\* /datasets/QD/GE/data.json
C9_Witness ==
    /\ call = "fmt_prefix"
    /\ query.kind = "DataQuery"
    /\ query.request_arguments # {}
    /\ query.data_arguments # {}
    /\ result = Some(<<"/", "d", "a", "t", "a", "s", "e", "t", "s", "/", "Q", "D", "/",
                       "G", "E", "/", "d", "a", "t", "a", ".", "j", "s", "o", "n">>)

\* the fragment of the second argument group of a query
SecondFragment(q) ==
    IF q.kind \in HasSearchArguments THEN SearchParameters_fmt(q) ELSE DataParameters_fmt(q)

\* C2: for DatabaseSearch, DataQuery and DataAndMetadataQuery, fmt_arguments is
\* A & B when both fragments are present, the one present when one is, and
\* None when neither is.
C2_TwoGroupMerge ==
    (/\ call = "fmt_arguments"
     /\ query.kind \in {"DatabaseSearch", "DataQuery", "DataAndMetadataQuery"}) =>
        LET A == ApiParameters_fmt(query)
            B == SecondFragment(query)
        IN  /\ (A.some /\ B.some) => result = Some(A.val \o <<"&">> \o B.val)
            /\ (A.some /\ ~B.some) => result = A
            /\ (~A.some /\ B.some) => result = B
            /\ (~A.some /\ ~B.some) => result = None

\* a DataQuery with both groups set, formatted as r1=v&d2=v
C2_Witness ==
    /\ call = "fmt_arguments"
    /\ query.kind = "DataQuery"
    /\ query.request_arguments = {1}
    /\ query.data_arguments = {2}
    /\ result = Some(<<"r", "1", "=", "v", "&", "d", "2", "=", "v">>)

\* C1: for a DatasetSearch, fmt_arguments returns Some(s) where the final term
\* of s is database_code=<code>, and s is that term alone when both groups
\* are empty.
C1_DatabaseCodeIsFinalTerm ==
    (call = "fmt_arguments" /\ query.kind = "DatasetSearch") =>
        LET term == L_database_code \o query.database_code
        IN  /\ result.some
            /\ \/ result.val = term
               \/ EndsWith(result.val, <<"&">> \o term)
            /\ (query.request_arguments = {} /\ query.search_arguments = {})
                  => result.val = term

(***************************************************************************)
(* Properties of send, checked under SpecSend.                             *)
(***************************************************************************)
\* the number of keys of the JSON object in a response
KeyCount(members) == Cardinality({members[i].key : i \in 1..Len(members)})

\* every key of the object is mapped, by its last member, to a value of T
WellTyped(members) ==
    \A i \in 1..Len(members) :
        (\A j \in (i + 1)..Len(members) : members[j].key # members[i].key)
            => members[i].value \in Values

JsonObjectSent ==
    /\ call = "send"
    /\ query.kind \in JsonKinds
    /\ response.ok
    /\ response.body.utf8
    /\ response.body.syntax
    /\ WellTyped(response.body.members)

\* C3: for a UTF-8 payload that is a JSON object of N keys mapped to T,
\* send_and_unwrap_json returns Ok of the single value, whatever its key, when
\* N = 1, and otherwise the ParsingFailed error that reports N.
C3_ExactlyOneKey ==
    JsonObjectSent =>
        LET members == response.body.members
            N == KeyCount(members)
        IN  IF N = 1
            THEN /\ result.tag = "Ok"
                 /\ result.value = members[Len(members)].value
            ELSE /\ result.tag = "Err"
                 /\ result.kind = "ParsingFailed"
                 /\ result.value =
                      <<IF N = 0 THEN "Expected a single element, got 0."
                        ELSE IF N = 2 THEN "Expected a single element, got 2."
                        ELSE "Expected a single element, got " \o Decimal(N) \o ".">>

\* {"dataset": v1} sent in answer to a DataQuery
C3_Witness ==
    /\ JsonObjectSent
    /\ query.kind = "DataQuery"
    /\ response.body.members = <<[key |-> "dataset", value |-> "v1"]>>
    /\ result = Ok("v1")

\* C8: a send makes exactly one transport call, before any decoding; when the
\* call fails, send returns the transport's error as it is and decodes nothing.
C8_OneTransportCallFirst ==
    call = "send" =>
        /\ trace # <<>>
        /\ trace[1] = "encoded_data"
        /\ \A i \in 2..Len(trace) : trace[i] # "encoded_data"
        /\ ~response.ok => (trace = <<"encoded_data">> /\ result = response.error)

\* a failed transport call of a code-list query
C8_Witness ==
    /\ call = "send"
    /\ query.kind = "CodeListQuery"
    /\ ~response.ok
    /\ trace = <<"encoded_data">>
    /\ result = TransportErr(<<"DownloadFailed">>)

CodeListSent ==
    /\ call = "send"
    /\ query.kind = "CodeListQuery"
    /\ response.ok

Entries == response.body.entries

RECURSIVE RowsOf(_)
RowsOf(entries) ==
    IF entries = <<>> THEN <<>> ELSE entries[1].rows \o RowsOf(Tail(entries))

AllEntriesOk == \A i \in 1..Len(Entries) : Entries[i].state = "ok"

\* every entry is read, and every entry that another one follows ends its
\* last row with a line break: the rows of the text are the rows written
CleanArchive ==
    /\ response.body.zip
    /\ AllEntriesOk
    /\ \A i \in 1..(Len(Entries) - 1) : Entries[i].newline

GoodRows == {RowOfCode(c) : c \in GoodCodes}

CodeOfRow(row) == CHOOSE c \in GoodCodes : RowOfCode(c) = row

CodesOfRows(rows) == [i \in 1..Len(rows) |-> CodeOfRow(rows[i])]

SlashCount(s) == Cardinality({i \in 1..Len(s) : s[i] = "/"})

\* C4: for CSV rows r1..rN of the form database/dataset,name, send returns Ok
\* of the N Code records of the rows, in row order.
C4_EveryRowYieldsItsRecord ==
    (/\ CodeListSent
     /\ CleanArchive
     /\ \A i \in 1..Len(RowsOf(Entries)) : RowsOf(Entries)[i] \in GoodRows) =>
        /\ result.tag = "Ok"
        /\ result.value = CodesOfRows(RowsOf(Entries))

\* C5: when the first column of any row, wherever the row stands, holds no
\* "/" or more than one, send returns the ParsingFailed error of the fixed
\* message.
C5_BadCodePairIsRejected ==
    (/\ CodeListSent
     /\ CleanArchive
     /\ \A i \in 1..Len(RowsOf(Entries)) : Len(RowsOf(Entries)[i]) = 2
     /\ \E i \in 1..Len(RowsOf(Entries)) : SlashCount(RowsOf(Entries)[i][1]) # 1) =>
        /\ result.tag = "Err"
        /\ result.kind = "ParsingFailed"
        /\ result.value = <<"Invalid format for dataset codes in unzipped code list.">>

\* C6: every Code record of an Ok result has a non-empty database_code and a
\* non-empty dataset_code.
C6_SegmentsAreNonEmpty ==
    (call = "send" /\ query.kind = "CodeListQuery" /\ result.tag = "Ok") =>
        \A i \in 1..Len(result.value) :
            /\ result.value[i].database_code # <<>>
            /\ result.value[i].dataset_code # <<>>

\* C7: a payload that is no zip archive, or an archive one of whose entries
\* cannot be opened or read as text, ends send with Err(ParsingFailed); no
\* send ends in a panic.
C7_FailuresAreParsingFailed ==
    (call = "send" /\ query.kind = "CodeListQuery") =>
        /\ result.tag # "Panic"
        /\ (response.ok /\ (~response.body.zip \/ ~AllEntriesOk)) =>
              (result.tag = "Err" /\ result.kind = "ParsingFailed")

\* C10: for an archive of K >= 1 entries, send returns the records of the rows
\* of entry 0, then those of entry 1, and so on: no row is lost or merged with
\* a row of another entry.
C10_EntriesAreConcatenatedRowWise ==
    (/\ CodeListSent
     /\ response.body.zip
     /\ Len(Entries) >= 1
     /\ AllEntriesOk
     /\ \A i \in 1..Len(RowsOf(Entries)) : RowsOf(Entries)[i] \in GoodRows) =>
        /\ result.tag = "Ok"
        /\ Len(result.value) = Len(RowsOf(Entries))
        /\ result.value = CodesOfRows(RowsOf(Entries))

====
